---- MODULE Spec2Model ----
(***************************************************************************)
(* Model of test-records.js: the validator that walks the companies and  *)
(* supervisory-authorities directories, checks every *.json file and, in *)
(* --auto-fix mode, rewrites the company records.                          *)
(*                                                                         *)
(* A JavaScript string is a sequence of symbols.  A symbol is a whitespace *)
(* character (SP, NL), a digit, or a word: a run of characters that are    *)
(* neither whitespace nor digits.  trim, split, join and the city regex    *)
(* are computed on these sequences as the JavaScript computes them on      *)
(* characters.                                                             *)
(***************************************************************************)
EXTENDS Integers, Sequences, FiniteSets, TLC

\* ------------------------------------------------------------------ bounds
MaxAddrLen == 4
MaxElements == 2
MaxRuns == 2

\* ----------------------------------------------------------------- strings
SP == " "
NL == "\n"
Whitespace == {SP, NL}
Digits == {"1"}

Min(S) == CHOOSE x \in S : \A y \in S : x <= y
Max(S) == CHOOSE x \in S : \A y \in S : x >= y

\* all sequences over A of length at most n
SeqsUpTo(A, n) == UNION {[1..k -> A] : k \in 0..n}

\* String.prototype.trim
trim(s) ==
    LET keep == {i \in 1..Len(s) : s[i] \notin Whitespace}
    IN  IF keep = {} THEN <<>> ELSE SubSeq(s, Min(keep), Max(keep))

\* String.prototype.split('\n')
RECURSIVE split(_)
split(s) ==
    LET nl == {i \in 1..Len(s) : s[i] = NL}
    IN  IF nl = {} THEN <<s>>
        ELSE <<SubSeq(s, 1, Min(nl) - 1)>> \o split(SubSeq(s, Min(nl) + 1, Len(s)))

\* Array.prototype.join('\n')
RECURSIVE join(_)
join(lines) ==
    IF lines = <<>> THEN <<>>
    ELSE IF Len(lines) = 1 THEN lines[1]
    ELSE lines[1] \o <<NL>> \o join(Tail(lines))

\* Array.prototype.includes
includes(arr, x) == \E i \in 1..Len(arr) : arr[i] = x

\* Array.prototype.indexOf, for an element that is in the array (1-based)
indexOf(arr, x) == Min({i \in 1..Len(arr) : arr[i] = x})

\* the symbols the class [\d ] matches, and those the class [\S ] rejects
DigitOrSpace == Digits \cup {SP}
NotNonSpaceOrSpace == Whitespace \ {SP}

\* [\d ]* from position `from`: the length of the greedy run
digit_space_run(s, from) ==
    LET stop == {i \in from..Len(s) : s[i] \notin DigitOrSpace}
    IN  IF stop = {} THEN Len(s) - from + 1 ELSE Min(stop) - from

\* [\S ]* from position `from`: the length of the greedy run
non_space_run(s, from) ==
    LET stop == {i \in from..Len(s) : s[i] \in NotNonSpaceOrSpace}
    IN  IF stop = {} THEN Len(s) - from + 1 ELSE Min(stop) - from

\* /[\d ]* ([\S ]*)/.exec(s): the leftmost start from which the greedy run of
\* digits and spaces holds a space; the run backtracks to its last space, and
\* group 1 is the greedy run of [\S ] after that space.  No match gives null.
city_regex(s) ==
    LET starts == {i \in 1..Len(s) :
                     \E j \in i..(i + digit_space_run(s, i) - 1) : s[j] = SP}
    IN  IF starts = {} THEN [matched |-> FALSE, group |-> <<>>]
        ELSE LET b  == Min(starts)
                 sp == Max({j \in b..(b + digit_space_run(s, b) - 1) : s[j] = SP})
             IN  [matched |-> TRUE,
                  group |-> SubSeq(s, sp + 1, sp + non_space_run(s, sp + 1))]

\* ---------------------------------------------------------- reference data
\* countries-list: the entries of countries the model keeps
countries ==
    [DE |-> [name |-> <<"Germany">>, native |-> <<"Deutschland">>],
     NL |-> [name |-> <<"Netherlands">>, native |-> <<"Nederland">>],
     SG |-> [name |-> <<"Singapore">>, native |-> <<"Singapore">>],
     US |-> [name |-> <<"United", SP, "States">>, native |-> <<"United", SP, "States">>]]

\* all-the-cities: the entries of cities the model keeps, in list order
cities ==
    << [name |-> <<"Berlin">>, country |-> "DE"],
       [name |-> <<"Utrecht">>, country |-> "NL"],
       [name |-> <<"Berlin">>, country |-> "US"] >>

country_name_variations ==
    << <<"United", SP, "States", SP, "of", SP, "America">>,
       <<"The", SP, "Netherlands">>,
       <<"Republic", SP, "of", SP, "Singapore">> >>

variation_countrycodes == <<"US", "NL", "SG">>

isLastLineCountry(last_line, variations) ==
    \/ \E countrycode \in DOMAIN countries :
          \/ /\ ~includes(variation_countrycodes, countrycode)
             /\ countries[countrycode].name = last_line
          \/ countries[countrycode].native = last_line
    \/ includes(variations, last_line)

\* ------------------------------------------------------- template catalog
\* One glob match <lang>/<name>.txt, after replace('.txt', '').split('/').
Path(lang, name) == <<lang, name>>

\* the reducer of glob.sync('**/*.txt', { cwd: 'templates' }).reduce(..., {})
RECURSIVE templates_reduce(_, _)
templates_reduce(paths, acc) ==
    IF paths = <<>> THEN acc
    ELSE LET lang == Head(paths)[1]
             name == Head(paths)[2]
         IN  templates_reduce(Tail(paths),
                 IF lang \in DOMAIN acc
                 THEN [acc EXCEPT ![lang] = Append(@, name)]
                 ELSE (lang :> <<name>>) @@ acc)

\* the empty object {} the reduction starts from
EmptyObject == [k \in {} |-> <<>>]

\* -------------------------------------------------------------- JSON values
\* A parsed record is a function from the keys present to their values:
\* strings, and for required-elements a sequence of [type |-> ...] objects.
TemplateProps ==
    <<"custom-access-template", "custom-erasure-template",
      "custom-rectification-template", "custom-objection-template">>

\* Object.keys(json): the order in which the files of the model list the keys
KeyOrder ==
    <<"slug", "name", "address", "web", "quality", "request-language">>
    \o TemplateProps \o <<"required-elements">>

Has(json, key) == key \in DOMAIN json

\* typeof json[key] === 'string'
IsString(json, key) == Has(json, key) /\ key # "required-elements"

\* if (json[key]): undefined and '' are falsy, an array is truthy
Truthy(json, key) ==
    Has(json, key) /\ (IsString(json, key) => json[key] # <<>>)

\* ------------------------------------------------------------- rule engine
\* The locals of additional_checks as they stand when the function returns
\* or throws.  threw is the uncaught TypeError and line the source line that
\* threw it; wrote is the call of fs.writeFileSync; last_line and
\* last_line_is_country are set once line 188 has been evaluated (reached).
Locals(json) ==
    [json |-> json, af_json |-> json, errors |-> <<>>, autofixes |-> <<>>,
     threw |-> FALSE, line |-> 0, wrote |-> FALSE,
     reached |-> FALSE, last_line |-> <<>>, last_line_is_country |-> FALSE]

Msg(text, key) == <<text, key>>

Error(acc, ev) == [acc EXCEPT !.errors = Append(@, ev)]
Autofix(acc, ev) == [acc EXCEPT !.autofixes = Append(@, ev)]
Throw(acc, line) == [acc EXCEPT !.threw = TRUE, !.line = line]

\* has_name_field with `every` written for `some`
has_name_field_every(json) ==
    \A i \in 1..Len(json["required-elements"]) : json["required-elements"][i].type = "name"

\* json['required-elements'].some((el) => el.type === 'name')
has_name_field(json) ==
    \E i \in 1..Len(json["required-elements"]) : json["required-elements"][i].type = "name"

\* lines 111-118
check_required_elements(json, acc) ==
    IF Truthy(json, "required-elements") /\ ~has_name_field(json)
    THEN Error(acc, [msg |-> Msg("Record has required elements but no 'name' element.", ""),
                     ref |-> "https://github.com/datenanfragen/data#required-elements"])
    ELSE acc

\* lines 128-141, the loop body for one prop
check_template(templates, json, prop, acc) ==
    IF acc.threw \/ ~Truthy(json, prop) THEN acc
    ELSE IF Truthy(json, "request-language")
    THEN IF json["request-language"] \notin DOMAIN templates THEN Throw(acc, 130)
         ELSE IF ~includes(templates[json["request-language"]], json[prop])
         THEN Error(acc, [msg |-> Msg("isn't available for 'request-language'", prop)])
         ELSE acc
    ELSE IF <<"en">> \notin DOMAIN templates THEN Throw(acc, 135)
         ELSE IF ~includes(templates[<<"en">>], json[prop])
         THEN Error(acc, [msg |-> Msg("isn't available in English", prop),
                          ref |-> "https://github.com/datenanfragen/data/issues/1120"])
         ELSE acc

\* lines 120-142
RECURSIVE check_templates(_, _, _, _)
check_templates(templates, json, props, acc) ==
    IF props = <<>> THEN acc
    ELSE check_templates(templates, json, Tail(props),
                         check_template(templates, json, Head(props), acc))

\* lines 145-151
check_quality(json, acc) ==
    IF acc.threw THEN acc
    ELSE IF (Has(json, "quality") /\ json["quality"] = <<"tested">>)
            /\ ~Truthy(json, "required-elements")
    THEN Error(acc, [msg |-> Msg("Record has quality of tested but doesn't specify required-elements.", ""),
                     ref |-> "https://github.com/datenanfragen/data/issues/811"])
    ELSE acc

\* lines 154-162, the loop body for one key
check_whitespace_key(autofix, json, key, acc) ==
    IF IsString(json, key) /\ json[key] # trim(json[key])
    THEN LET e == Error(acc, [msg |-> Msg("isn't trimmed", key)])
         IN  IF autofix
             THEN Autofix([e EXCEPT !.af_json[key] = trim(json[key])],
                          [msg |-> Msg("trimmed", key)])
             ELSE e
    ELSE acc

\* lines 153-163
RECURSIVE check_whitespace(_, _, _, _)
check_whitespace(autofix, json, keys, acc) ==
    IF acc.threw \/ keys = <<>> THEN acc
    ELSE check_whitespace(autofix, json, Tail(keys),
                          check_whitespace_key(autofix, json, Head(keys), acc))

\* address_lines.map((x) => x.trim())
trim_lines(lines) == [i \in 1..Len(lines) |-> trim(lines[i])]

\* lines 167: the line-count check
check_line_count(address_lines, acc) ==
    IF Len(address_lines) < 2
    THEN Error(acc, [msg |-> Msg("address is not formatted with newlines (\\n).", "")])
    ELSE acc

\* lines 169-175
check_line_trim(autofix, address_lines, acc) ==
    IF \E i \in 1..Len(address_lines) : address_lines[i] # trim(address_lines[i])
    THEN LET e == Error(acc, [msg |-> Msg("address isn't trimmed (linewise)", "")])
         IN  IF autofix
             THEN Autofix([e EXCEPT !.af_json["address"] = join(trim_lines(address_lines))],
                          [msg |-> Msg("trimmed address", "")])
             ELSE e
    ELSE acc

\* lines 177-181
check_name_in_address(autofix, json, address_lines, acc) ==
    LET e == IF Has(json, "name") /\ includes(address_lines, json["name"])
             THEN Error(acc, [msg |-> Msg("Record includes name in the address.", "")])
             ELSE acc
    IN  IF autofix /\ Has(json, "name") /\ trim(address_lines[1]) = json["name"]
        THEN Autofix([e EXCEPT !.af_json["address"] = join(Tail(address_lines))],
                     [msg |-> Msg("Removed duplicate name in first line of address", "")])
        ELSE e

\* cities.filter((x) => x.name === city)
cities_filter(city) == SelectSeq(cities, LAMBDA x : x.name = city)

\* lines 201-203: the name appended for the guessed country
guessed_country_name(guess) ==
    IF includes(variation_countrycodes, guess.country)
    THEN country_name_variations[indexOf(variation_countrycodes, guess.country)]
    ELSE countries[guess.country].name

\* lines 196-207
guess_country(last_line, acc) ==
    LET m == city_regex(last_line)
    IN  IF ~m.matched THEN Throw(acc, 197)
        ELSE LET found == cities_filter(m.group)
             IN  IF found = <<>> THEN acc
                 ELSE Autofix([acc EXCEPT !.af_json["address"] =
                                   @ \o <<NL>> \o guessed_country_name(found[1])],
                              [msg |-> Msg("guessed missing country", found[1].country)])

\* lines 187-208
check_country(autofix, address_lines, acc) ==
    LET last_line == trim(address_lines[Len(address_lines)])
        last_line_is_country == isLastLineCountry(last_line, country_name_variations)
        seen == [acc EXCEPT !.reached = TRUE, !.last_line = last_line,
                            !.last_line_is_country = last_line_is_country]
    IN  IF last_line_is_country THEN seen
        ELSE LET e == Error(seen, [msg |-> Msg("Last line of address should be a country.", "")])
             IN  IF autofix THEN guess_country(last_line, e) ELSE e

\* lines 166-208: json['address'].split('\n') throws when address is undefined
check_address(autofix, json, acc) ==
    IF acc.threw THEN acc
    ELSE IF ~Has(json, "address") THEN Throw(acc, 166)
    ELSE LET address_lines == split(json["address"])
         IN  check_country(autofix, address_lines,
               check_name_in_address(autofix, json, address_lines,
                 check_line_trim(autofix, address_lines,
                   check_line_count(address_lines, acc))))

\* JSON.parse gives a fresh object: json !== af_json compares the references
json_ref == 1
af_json_ref == 2

\* line 209 without its test of the autofix flag
should_write_unguarded(autofix, acc) == json_ref # af_json_ref

\* line 209
should_write(autofix, acc) == autofix /\ json_ref # af_json_ref

write_file(autofix, acc) ==
    IF ~acc.threw /\ should_write(autofix, acc) THEN [acc EXCEPT !.wrote = TRUE] ELSE acc

\* lines 224-227
with_type(evs, type) ==
    [i \in 1..Len(evs) |->
        [k \in DOMAIN evs[i] \cup {"type"} |-> IF k = "type" THEN type ELSE evs[i][k]]]

returnevents(acc) == with_type(acc.autofixes, "autofix") \o with_type(acc.errors, "error")

\* additional_checks(json, f): the locals at the return, or at the throw
additional_checks(templates, autofix, json) ==
    write_file(autofix,
      check_address(autofix, json,
        check_whitespace(autofix, json, KeyOrder,
          check_quality(json,
            check_templates(templates, json, TemplateProps,
              check_required_elements(json, Locals(json)))))))

\* ----------------------------------------------------------- file walker
\* validator('companies', cdb_schema, additional_checks);
\* validator('supervisory-authorities', adb_schema);
Dirs == <<"companies", "supervisory-authorities">>

File(dir, slug) == [dir |-> dir, base |-> <<slug, ".json">>]

\* glob.sync(dir + '/*.json'): the files of the model's two directories
glob(dir) ==
    IF dir = "companies" THEN <<File(dir, "acme"), File(dir, "zeta")>>
    ELSE <<File(dir, "auth")>>

Files == UNION {{glob(Dirs[d])[i] : i \in 1..Len(glob(Dirs[d]))} : d \in 1..Len(Dirs)}

\* path.basename(f)
basename(f) == f.base

\* the text of a file: what JSON.parse makes of it (kind, json), its last
\* characters (tail), and what the compiled schema of its directory says of
\* the parsed value (valid)
Content(kind, json, tail, valid) ==
    [kind |-> kind, json |-> json, tail |-> tail, valid |-> valid]

GoodTail == <<"}", NL>>

\* file_content.endsWith('}\n')
endsWith(tail, suffix) ==
    Len(tail) >= Len(suffix)
    /\ SubSeq(tail, Len(tail) - Len(suffix) + 1, Len(tail)) = suffix

\* JSON.stringify(af_json, null, 4) + '\n'
stringify(af_json, valid) == Content("object", af_json, GoodTail, valid)

\* json.slug + '.json'
slug_json(json) ==
    (IF Has(json, "slug") THEN json["slug"] ELSE <<"undefined">>) \o <<".json">>

\* print(events), lines 41-50: what console.error gets for one event
print_event(event) ==
    IF "msg" \in DOMAIN event /\ Cardinality(DOMAIN event) = 1 THEN <<event.msg>>
    ELSE IF "msg" \in DOMAIN event
    THEN <<event.msg, [k \in DOMAIN event \ {"msg"} |-> event[k]]>>
    ELSE <<event>>

\* print(events), lines 37-52: the files printed, in the order of the listing
RECURSIVE print(_, _)
print(events, files) ==
    IF files = <<>> THEN <<>>
    ELSE (IF Head(files) \in DOMAIN events /\ events[Head(files)] # <<>>
          THEN <<[file |-> Head(files),
                  lines |-> [i \in 1..Len(events[Head(files)]) |->
                               print_event(events[Head(files)][i])]]>>
          ELSE <<>>)
         \o print(events, Tail(files))

\* lines 66-85: the callback of files.forEach for one file.  evs is what
\* events[f] holds when the callback returns or throws, stages the checks
\* that were started, call the locals of additional_checks if it was called.
validate_file(templates, autofix, f, content, with_checks) ==
    LET newline == IF ~endsWith(content.tail, <<"}", NL>>)
                   THEN <<[msg |-> Msg("File doesn't end with exactly one newline.", ""),
                           type |-> "error"]>>
                   ELSE <<>>
    IN  IF content.kind = "unparsable"
        THEN [evs |-> newline \o <<[msg |-> Msg("Parsing JSON failed.", ""),
                                    error |-> "SyntaxError", type |-> "error"]>>,
              stages |-> <<"newline", "parse">>, parsed |-> FALSE,
              threw |-> FALSE, call |-> <<>>]
        ELSE LET schema == IF ~content.valid
                           THEN <<[msg |-> Msg("Schema validation failed.", ""),
                                   error |-> "schema.errors", type |-> "error"]>>
                           ELSE <<>>
             IN  IF content.kind = "null"
                 THEN [evs |-> newline \o schema,
                       stages |-> <<"newline", "parse", "schema", "slug">>,
                       parsed |-> TRUE, threw |-> TRUE, call |-> <<>>]
                 ELSE LET json == content.json
                          slug == IF slug_json(json) # basename(f)
                                  THEN <<[msg |-> Msg("Filename does not match slug", ""),
                                          type |-> "error"]>>
                                  ELSE <<>>
                      IN  IF ~with_checks
                          THEN [evs |-> newline \o schema \o slug,
                                stages |-> <<"newline", "parse", "schema", "slug">>,
                                parsed |-> TRUE, threw |-> FALSE, call |-> <<>>]
                          ELSE LET tmp == additional_checks(templates, autofix, json)
                               IN  [evs |-> IF tmp.threw THEN newline \o schema \o slug
                                            ELSE newline \o schema \o slug \o returnevents(tmp),
                                    stages |-> <<"newline", "parse", "schema", "slug", "rules">>,
                                    parsed |-> TRUE, threw |-> tmp.threw,
                                    call |-> <<tmp @@ [f |-> f, autofix |-> autofix]>>]

\* ------------------------------------------------------------------ inputs
With(json, key, value) == (key :> value) @@ json
Without(json, key) == [k \in DOMAIN json \ {key} |-> json[k]]

\* a record no rule objects to
Base(slug) ==
    [slug |-> <<slug>>, name |-> <<"Acme">>, address |-> <<"1", NL, "Germany">>]

AddrAlphabet == {SP, NL, "Acme", "Berlin", "Germany"}

\* every address of at most MaxAddrLen symbols, and no address at all
AddressRecords ==
    {With(Base("acme"), "address", a) : a \in SeqsUpTo(AddrAlphabet, MaxAddrLen)}
    \cup {Without(Base("acme"), "address")}

\* last lines that are names of the reference data, or near them
LastLines ==
    {countries[c].name : c \in DOMAIN countries}
    \cup {countries[c].native : c \in DOMAIN countries}
    \cup {country_name_variations[i] : i \in 1..Len(country_name_variations)}
    \cup {<<"Utrecht">>, <<"1", SP, "Utrecht">>, <<"1", SP, "Berlin">>,
          <<"1", "1", SP, SP, "Berlin">>, <<"Acme", SP, "1", SP, "Berlin">>,
          <<"Atlantis">>, <<"1", SP, "Atlantis">>}

LastLineRecords ==
    {With(Base("acme"), "address", first \o <<NL>> \o last) :
        first \in {<<"Acme">>, <<"1">>}, last \in LastLines}

\* marks a key left out of a generated record
Absent == <<"absent">>
Optional(S) == S \cup {Absent}
Strip(r) ==
    [k \in {x \in DOMAIN r : x = "required-elements" \/ r[x] # Absent} |-> r[k]]

\* string fields with and without surrounding whitespace
FieldRecords ==
    {Strip(r) :
        r \in [slug : Optional({<<"acme">>, <<"other">>, <<SP, "acme">>}),
               name : Optional({<<"Acme">>, <<SP, "Acme">>, <<"Acme", NL>>}),
               web : Optional({<<"w">>, <<"w", SP>>}),
               address : {<<"Acme", NL, "Germany">>, <<"Acme", NL, "Germany", SP>>,
                          <<"Acme", SP, NL, "Germany">>, <<SP, "1", NL, "1", SP, "Berlin">>}]}

\* every combination of request-language and the four custom-*-template fields
TemplateNames == {<<"access-default">>, <<"special">>}
Languages == {<<>>, <<"en">>, <<"de">>, <<"fr">>}

TemplateRecords ==
    {Strip(Base("acme") @@ l @@ p) :
        l \in [{"request-language"} -> Optional(Languages)],
        p \in [{TemplateProps[i] : i \in 1..Len(TemplateProps)} -> Optional(TemplateNames)]}

\* every required-elements list of at most MaxElements elements, or none
Elements == {[type |-> "name"], [type |-> "email"]}

ElementRecords ==
    {Strip(With(r, "quality", q)) :
        r \in {With(Base("acme"), "required-elements", els) :
                 els \in SeqsUpTo(Elements, MaxElements)} \cup {Base("acme")},
        q \in Optional({<<"tested">>, <<"verified">>})}

\* the templates directory as glob lists it
FullTree ==
    <<Path(<<"en">>, <<"access-default">>), Path(<<"de">>, <<"access-default">>),
      Path(<<"en">>, <<"special">>)>>
Trees == {FullTree, <<>>}

Tails == {GoodTail, <<"}">>, <<"}", NL, NL>>}

\* the contents a file takes when several files vary together
SmallContents(slug) ==
    {Content("object", Base(slug), t, v) : t \in Tails, v \in BOOLEAN}
    \cup {Content("unparsable", EmptyObject, GoodTail, FALSE)}
    \cup {Content("null", EmptyObject, <<"null", NL>>, v) : v \in BOOLEAN}
    \cup {Content("object", r, GoodTail, TRUE) :
            r \in {Without(Base(slug), "address"),
                   With(Base(slug), "address", <<"Acme", NL, "Berlin">>),
                   With(Base(slug), "address", <<SP, "Acme", NL, "1", SP, "Berlin">>)}}

slug_of(f) == basename(f)[1]

\* one record in companies/acme.json, the other files in order
SingleFileDisks(records) ==
    {[f \in Files |-> IF slug_of(f) = "acme" THEN Content("object", r, GoodTail, v)
                      ELSE Content("object", Base(slug_of(f)), GoodTail, TRUE)] :
        r \in records, v \in BOOLEAN}

MultiFileDisks ==
    {[f \in Files |-> IF slug_of(f) = "acme" THEN a
                      ELSE IF slug_of(f) = "zeta" THEN z ELSE s] :
        a \in SmallContents("acme"), z \in SmallContents("zeta"),
        s \in {c \in SmallContents("auth") : c.json = Base("auth") \/ c.tail # GoodTail}}

Inputs ==
    {[tree |-> FullTree, disk |-> d] :
        d \in SingleFileDisks(AddressRecords \cup LastLineRecords
                              \cup FieldRecords \cup ElementRecords)}
    \cup {[tree |-> t, disk |-> d] : t \in Trees, d \in SingleFileDisks(TemplateRecords)}
    \cup {[tree |-> FullTree, disk |-> d] : d \in MultiFileDisks}

\* ------------------------------------------------------------------- state
VARIABLES
    autofix,    \* process.argv[2] === '--auto-fix'
    templates,  \* the template catalog, built at startup
    disk,       \* the content of every file of the two directories
    run,        \* how many times the program has been started
    pc,         \* "walk": inside a validator call; "done": exited; "aborted": uncaught exception
    dir,        \* which validator call is running (index in Dirs)
    idx,        \* the next file of files.forEach
    events,     \* the events object of the running validator call
    printed,    \* what print(events) has put on the console in this run
    cur,        \* the last file visited in this run: its stages and events
    call,       \* the last call of additional_checks in this run: its locals
    written,    \* the files fs.writeFileSync has written in this run
    fixed       \* the files written in an earlier run

vars == <<autofix, templates, disk, run, pc, dir, idx, events, printed, cur, call,
          written, fixed>>

Init ==
    \E in \in Inputs, af \in BOOLEAN :
        /\ autofix = af
        /\ templates = templates_reduce(in.tree, EmptyObject)
        /\ disk = in.disk
        /\ run = 1
        /\ pc = "walk"
        /\ dir = 1
        /\ idx = 1
        /\ events = EmptyObject
        /\ printed = <<>>
        /\ cur = <<>>
        /\ call = <<>>
        /\ written = {}
        /\ fixed = {}

\* files.forEach((f) => {...}): one file of the running validator call.  What
\* the schema says of a rewritten record is not decided by this program,
\* unless the record is rewritten unchanged.
ValidateFile ==
    /\ pc = "walk"
    /\ idx <= Len(glob(Dirs[dir]))
    /\ \E r \in {validate_file(templates, autofix, glob(Dirs[dir])[idx],
                               disk[glob(Dirs[dir])[idx]], dir = 1)} :
       LET f == glob(Dirs[dir])[idx]
           wrote == r.call # <<>> /\ r.call[1].wrote
       IN  /\ events' = IF r.evs # <<>> \/ (r.call # <<>> /\ ~r.threw)
                        THEN (f :> r.evs) @@ events ELSE events
           /\ cur' = <<[f |-> f, stages |-> r.stages, parsed |-> r.parsed,
                        threw |-> r.threw, evs |-> r.evs]>>
           /\ call' = IF r.call # <<>> THEN r.call ELSE call
           /\ IF wrote
              THEN \E valid \in BOOLEAN :
                     /\ r.call[1].af_json = disk[f].json => valid = disk[f].valid
                     /\ disk' = [disk EXCEPT ![f] = stringify(r.call[1].af_json, valid)]
              ELSE disk' = disk
           /\ written' = IF wrote THEN written \cup {f} ELSE written
           /\ pc' = IF r.threw THEN "aborted" ELSE pc
           /\ idx' = IF r.threw THEN idx ELSE idx + 1
    /\ UNCHANGED <<autofix, templates, run, dir, printed, fixed>>

\* print(events) at the end of a validator call; then the next call, or exit
PrintReport ==
    /\ pc = "walk"
    /\ idx > Len(glob(Dirs[dir]))
    /\ printed' = Append(printed, print(events, glob(Dirs[dir])))
    /\ IF dir < Len(Dirs)
       THEN /\ dir' = dir + 1
            /\ idx' = 1
            /\ events' = EmptyObject
            /\ pc' = pc
       ELSE /\ pc' = "done"
            /\ UNCHANGED <<dir, idx, events>>
    /\ UNCHANGED <<autofix, templates, disk, run, cur, call, written, fixed>>

\* the program is started again on the files as the last run left them
Rerun ==
    /\ pc \in {"done", "aborted"}
    /\ run < MaxRuns
    /\ \E af \in BOOLEAN : autofix' = af
    /\ run' = run + 1
    /\ pc' = "walk"
    /\ dir' = 1
    /\ idx' = 1
    /\ events' = EmptyObject
    /\ printed' = <<>>
    /\ cur' = <<>>
    /\ call' = <<>>
    /\ fixed' = fixed \cup written
    /\ written' = {}
    /\ UNCHANGED <<templates, disk>>

Next == ValidateFile \/ PrintReport \/ Rerun

Spec == Init /\ [][Next]_vars

\* ------------------------------------------------------------------ claims
Calls == {call[i] : i \in 1..Len(call)}
Visited == {cur[i] : i \in 1..Len(cur)}

\* the error findings of a call whose message is one of `texts`
ErrorsWith(c, texts) == {j \in 1..Len(c.errors) : c.errors[j].msg[1] \in texts}

\* C1: no exception ever aborts the run.
C1_NoAbort == pc # "aborted"

\* C2: in auto-fix mode the file is written only if the fixed copy differs
\* from the original record by value; a record no autofix applies to is not
\* written.
C2_WriteOnlyIfChanged ==
    \A c \in Calls : c.wrote => (c.af_json # c.json /\ c.autofixes # <<>>)

\* C3: the rule engine run in auto-fix mode on a record an earlier auto-fix
\* pass wrote leaves the fixed copy equal to its input, records no autofix
\* and does not write the file again.
C3_Idempotent ==
    \A c \in Calls :
        (c.autofix /\ c.f \in fixed) =>
            (~c.threw /\ c.af_json = c.json /\ c.autofixes = <<>> /\ ~c.wrote)

\* C4: in auto-fix mode, a record whose first address line is its name and
\* whose last address line is a city of the City Lookup gets the address
\* without its first line and with the city's country as a new last line,
\* and exactly two autofix findings.
C4_NameRemovedCountryAppended ==
    \A c \in Calls :
        (c.autofix /\ Has(c.json, "name") /\ Has(c.json, "address")) =>
            LET lines == split(c.json["address"])
                last  == lines[Len(lines)]
            IN  (/\ lines[1] = c.json["name"]
                 /\ ~isLastLineCountry(last, country_name_variations)
                 /\ cities_filter(last) # <<>>) =>
                    /\ ~c.threw
                    /\ c.af_json["address"] =
                         join(Tail(lines) \o <<guessed_country_name(cities_filter(last)[1])>>)
                    /\ Len(c.autofixes) = 2

TemplateTexts == {"isn't available for 'request-language'", "isn't available in English"}

\* C5: for each custom-*-template field present, with the language being
\* request-language if set and "en" otherwise, there is an error finding if
\* and only if the catalog has no entry for the language or the entry lacks
\* the template; an unknown language never crashes; the finding has a
\* reference link exactly when request-language is not set.
C5_TemplateAvailability ==
    \A c \in Calls :
        LET lang == IF Truthy(c.json, "request-language")
                    THEN c.json["request-language"] ELSE <<"en">>
        IN  /\ c.line \notin {130, 135}
            /\ \A p \in 1..Len(TemplateProps) :
                 Truthy(c.json, TemplateProps[p]) =>
                    LET found == {j \in ErrorsWith(c, TemplateTexts) :
                                     c.errors[j].msg[2] = TemplateProps[p]}
                    IN  /\ found # {} <=>
                              (\/ lang \notin DOMAIN templates
                               \/ ~includes(templates[lang], c.json[TemplateProps[p]]))
                        /\ \A j \in found :
                              "ref" \in DOMAIN c.errors[j]
                                  <=> ~Truthy(c.json, "request-language")

\* C6: in auto-fix mode, once all rules have run, every string field the
\* whitespace rule flags is trimmed in the fixed copy (for a field other
\* than address: holds the trimmed value of the original), whatever other
\* autofixes were applied.
C6_FlaggedFieldsTrimmed ==
    \A c \in Calls :
        (c.autofix /\ ~c.threw) =>
            \A k \in DOMAIN c.json :
                (IsString(c.json, k) /\ c.json[k] # trim(c.json[k])) =>
                    /\ c.af_json[k] = trim(c.af_json[k])
                    /\ k # "address" => c.af_json[k] = trim(c.json[k])

\* C7: isLastLineCountry is true if and only if the text is the official or
\* native name of a country outside the exclusion set, or a configured
\* variation.
C7_CountryMatcher ==
    \A c \in Calls :
        c.reached =>
            (c.last_line_is_country <=>
                \/ \E code \in DOMAIN countries :
                      /\ ~includes(variation_countrycodes, code)
                      /\ c.last_line \in {countries[code].name, countries[code].native}
                \/ includes(country_name_variations, c.last_line))

ElementTexts == {"Record has required elements but no 'name' element."}

NoNameElement(json) ==
    \A i \in 1..Len(json["required-elements"]) : json["required-elements"][i].type # "name"

\* C8 as stated: exactly one required-elements finding if and only if
\* required-elements is present, non-empty and has no element of type name;
\* otherwise none.
C8_NonEmptyWithoutName ==
    \A c \in Calls :
        Cardinality(ErrorsWith(c, ElementTexts)) =
            IF /\ Has(c.json, "required-elements")
               /\ c.json["required-elements"] # <<>>
               /\ NoNameElement(c.json)
            THEN 1 ELSE 0

\* C8 as amended: exactly one required-elements finding if and only if
\* required-elements is present (an empty list included) and has no element
\* of type name; otherwise none.
C8_PresentWithoutName ==
    \A c \in Calls :
        Cardinality(ErrorsWith(c, ElementTexts)) =
            IF Has(c.json, "required-elements") /\ NoNameElement(c.json)
            THEN 1 ELSE 0

\* a call on an empty required-elements list that emitted the finding and
\* returned it into the file's events
C8_Witness ==
    \E c \in Calls :
        /\ Has(c.json, "required-elements")
        /\ c.json["required-elements"] = <<>>
        /\ Cardinality(ErrorsWith(c, ElementTexts)) = 1
        /\ \E v \in Visited :
             /\ v.f = c.f
             /\ \E j \in 1..Len(v.evs) : v.evs[j].msg[1] \in ElementTexts

\* C9: in report-only mode the rule engine writes no file and returns no
\* autofix finding: every finding it returns is an error.
C9_ReportOnly ==
    /\ ~autofix => written = {}
    /\ \A c \in Calls :
         ~c.autofix =>
            /\ ~c.wrote
            /\ c.autofixes = <<>>
            /\ c.af_json = c.json
            /\ \A v \in Visited :
                 (v.f = c.f /\ ~v.threw) =>
                    /\ Len(v.evs) >= Len(c.errors)
                    /\ \A j \in 1..Len(v.evs) : v.evs[j].type = "error"

\* a report-only call that returned, on a record that violates the
\* whitespace, line-trim, name and country rules
C9_Witness ==
    \E c \in Calls :
        /\ ~c.autofix
        /\ ~c.threw
        /\ ErrorsWith(c, {"isn't trimmed"}) # {}
        /\ ErrorsWith(c, {"address isn't trimmed (linewise)"}) # {}
        /\ ErrorsWith(c, {"Record includes name in the address."}) # {}
        /\ ErrorsWith(c, {"Last line of address should be a country."}) # {}
        /\ \E v \in Visited : v.f = c.f /\ Len(v.evs) >= 4

FileTexts ==
    {"File doesn't end with exactly one newline.", "Parsing JSON failed.",
     "Schema validation failed.", "Filename does not match slug"}

\* C10: a file that fails to parse gets exactly one parse-error finding and
\* no schema check, slug check or rule engine; a file that parses gets the
\* schema check, the slug check and (in companies) the rule engine, in that
\* order, and its file-level findings precede the rule engine's.
C10_StageOrder ==
    \A v \in Visited :
        /\ ~v.parsed =>
              /\ Cardinality({j \in 1..Len(v.evs) : v.evs[j].msg[1] = "Parsing JSON failed."}) = 1
              /\ \A j \in 1..Len(v.stages) : v.stages[j] \notin {"schema", "slug", "rules"}
        /\ v.parsed =>
              /\ v.stages = <<"newline", "parse", "schema", "slug">>
                            \o (IF v.f.dir = "companies" THEN <<"rules">> ELSE <<>>)
              /\ \A a, b \in 1..Len(v.evs) :
                    (a < b /\ v.evs[b].msg[1] \in FileTexts) => v.evs[a].msg[1] \in FileTexts

====
